---- MODULE Spec2Model ----
(***************************************************************************)
(* The live-reconfigurable port/connection subsystem (package flow:        *)
(* In, Out, Conn, Network) together with the components of the generics    *)
(* demo (Hello, Upper, Lower, Printer).                                    *)
(* Beside it: the pump-based StringConnection with main's live            *)
(* configuration loop, the fixed pipeline generator -> upcase -> printer   *)
(* without and with a context, and Port11.Recv.                            *)
(*                                                                         *)
(* Go channel semantics used by the model:                                 *)
(*  - an unbuffered channel hands a value over only between a goroutine    *)
(*    parked in a select on it and a goroutine arriving at its own select; *)
(*  - a select evaluates its channel operands once on entry, then either   *)
(*    takes one of the ready cases (any of them) or parks on all of them;  *)
(*  - a select with a default case never parks;                            *)
(*  - a nil channel is never ready;                                        *)
(*  - cancelling a context closes its Done channel, which wakes every      *)
(*    goroutine parked on it.                                              *)
(***************************************************************************)
EXTENDS Integers, Sequences, FiniteSets, TLC

\* ---------------------------------------------------------------- bounds
MaxCount == 2      \* Hello sends "Hello 0" .. "Hello MaxCount-1" while not cancelled
MaxChan == 2       \* data channels Connect may allocate
MaxOps == 3        \* Connect/Disconnect calls the controllers may issue
MaxCuts == 3       \* Cut calls made on the StringConnection

\* ------------------------------------------------------ program constants
\* for i := 0; i < 10; i++
HelloCount == 10
NIL == 0           \* the nil data channel
PingCap == 0       \* capacity of a port's ping channel: make(chan struct{})

VARIABLES
    components,    \* Network.components (set by Add before Run)
    data,          \* In.data / Out.data of every port
    pingMade,      \* ping channels made for a port so far (0: In.ping / Out.ping is nil)
    pingBuf,       \* number of elements buffered in a port's ping channel
    nextChan,      \* number of data channels allocated so far
    pc,            \* position of every component's goroutine
    sel,           \* the data channel a goroutine's pending select was built with
    val,           \* the value v a component holds between Recv and Send
    count,         \* Hello.count
    printed,       \* what Printer has written to standard output
    cancelled,     \* ctx.Err() != nil
    runPc,         \* position of Network.Run
    runErr,        \* errgroup.Group's first recorded error
    ctl,           \* the goroutines that call Connect / Disconnect
    conns,         \* the Conn handles Connect has returned
    script,        \* what is left of a scripted controller's program
    ops,           \* Connect/Disconnect calls issued so far
    log,           \* history: every completed hand-over on a data channel
    wake,          \* history: what ended a goroutine's last select
    nilSwaps,      \* history: swap(nil) calls applied by the Disconnects of a Conn
    quiet,         \* history: Conns disconnected, no Connect on their ports during or since
    cut,           \* history: Conns (by channel) whose Disconnect has returned
    stalled,       \* history: ports whose parked call was woken by a swap(nil)
    nilAtCancel,   \* history: goroutines parked on a nil channel when ctx was cancelled
    ret,           \* history: what every component's Run has returned
    firstBad,      \* history: the component whose non-nil error was reported first
    stop,          \* StringConnection.stop
    exited,        \* StringConnection.exited
    cutOnce,       \* StringConnection.cut (sync.Once)
    closes,        \* history: close(conn.stop) calls executed
    cutPc,         \* position of every goroutine that calls Cut
    cutCalls,      \* Cut calls issued so far
    pumpPc,        \* position of the pump goroutine
    pumpVal,       \* val, the value the pump holds between out and in
    srcPc,         \* position of the component sending on out (Hello)
    srcCount,      \* its loop variable count
    dstPc,         \* position of the component receiving on in (Printer)
    dstGot,        \* what it has printed
    pumpLate,      \* history: stop was closed already when the pump took val
    lowPumpPc,     \* position of the pump goroutine of helloToLower
    lowPumpVal,    \* its val
    lowPc,         \* position of the component receiving from helloToLower
    lowGot,        \* what that component has received
    pipeCtx,       \* fixed pipeline: "none" without a context, else "live" / "done"
    leak,          \* fixed pipeline: the component written without its close, if any
    genPc,         \* position of the generator (Hello.Run)
    genI,          \* its loop variable i
    upPc,          \* position of upcase (Upper.Run)
    upVal,         \* the value upcase holds between its receive and its send
    prPc,          \* position of the printer (Printer.Run)
    pipeOut,       \* what the printer has written to standard output
    chanCloses,    \* close calls executed on upcaseIn and on upcaseOut
    pipeRet,       \* what the three tasks have returned
    waitPc,        \* position of processes.Wait()
    portPc,        \* position of Port11.Recv
    portData,      \* Port11.Data
    portSel,       \* the Data operand the pending select of Recv was built with
    swapReq,       \* the Port11ChangeRequest and how far its requester has come
    procStop,      \* Process.Stop is closed
    offer,         \* the value a sender offers on each data channel, if any
    dataClosed,    \* the data channels that are closed
    recvResult,    \* what the last Recv returned
    recvVia        \* the select case, and the channel, the last Recv returned by

grpVars == <<runErr, ret, firstBad>>
lowVars == <<lowPumpPc, lowPumpVal, lowPc, lowGot>>
pumpVars == <<stop, exited, cutOnce, closes, cutPc, cutCalls, pumpPc, pumpVal,
              srcPc, srcCount, dstPc, dstGot, pumpLate, lowVars>>
pipeVars == <<pipeCtx, leak, genPc, genI, upPc, upVal, prPc, pipeOut, chanCloses, pipeRet,
              waitPc>>
port11Vars == <<portPc, portData, portSel, swapReq, procStop, offer, dataClosed, recvResult,
                recvVia>>
extVars == <<pipeVars, port11Vars>>
flowVars == <<components, data, pingMade, pingBuf, nextChan, pc, sel, val, count,
              printed, cancelled, runPc, ctl, conns, script, ops, log, wake,
              nilSwaps, quiet, cut, stalled, nilAtCancel>>
vars == <<flowVars, grpVars, pumpVars, extVars>>

\* ------------------------------------------------------------- topology
Components == {"hello", "upper", "lower", "printer"}
Senders == {"hello", "upper", "lower"}
Receivers == {"upper", "lower", "printer"}
InPort(t) == <<t, "In">>
OutPort(t) == <<t, "Out">>
OutPorts == {OutPort(t) : t \in Senders}
InPorts == {InPort(t) : t \in Receivers}
Ports == OutPorts \cup InPorts
Owner(p) == p[1]
Controllers == {"main", "aux"}
\* Components of any other kind: Run(ctx) returns when and what it likes.
Workers == {"w1", "w2"}
Procs == Components \cup Workers
\* The goroutines that call Cut on a StringConnection.
Cutters == {"c1", "c2"}

\* ---------------------------------------------------------------- values
Lowers == <<"a","b","c","d","e","f","g","h","i","j","k","l","m",
            "n","o","p","q","r","s","t","u","v","w","x","y","z">>
Uppers == <<"A","B","C","D","E","F","G","H","I","J","K","L","M",
            "N","O","P","Q","R","S","T","U","V","W","X","Y","Z">>
Digits == <<"0","1","2","3","4","5","6","7","8","9">>

RECURSIVE Itoa(_)
Itoa(n) == IF n < 10 THEN <<Digits[n + 1]>>
           ELSE Itoa(n \div 10) \o <<Digits[(n % 10) + 1]>>

MapChar(c, from, to) ==
    IF \E i \in 1..Len(from) : from[i] = c
    THEN to[CHOOSE i \in 1..Len(from) : from[i] = c]
    ELSE c

ToUpper(s) == [i \in 1..Len(s) |-> MapChar(s[i], Lowers, Uppers)]
ToLower(s) == [i \in 1..Len(s) |-> MapChar(s[i], Uppers, Lowers)]

HelloMsg(n) == <<"H","e","l","l","o"," ">> \o Itoa(n)
Zero == <<>>

\* --------------------------------------------------- component programs
\* The fixed pipeline: upcaseIn := make(chan string); upcaseOut := make(chan
\* string); printerIn := upcaseOut, and the three tasks started on them.
PipeChans == {"upcaseIn", "upcaseOut"}
PipeTasks == {"generator", "upcase", "printer"}

\* Port11: the channels Data can be, a nil channel among them.
NilChan == "nil"
DataChans == {"a", "b"}
PortValues == {HelloMsg(0), HelloMsg(1)}
NoRequest == [New |-> NilChan, pc |-> "none"]
NoResult == [value |-> Zero, ok |-> FALSE]

FirstPc(t) ==
    CASE t = "hello" -> "sendEntry"
      [] t \in Workers -> "work"
      [] OTHER -> "recvEntry"
AfterSendPc(t) == IF t = "hello" THEN "sendEntry" ELSE "recvEntry"
AfterRecvPc(t) == IF t = "printer" THEN "recvEntry" ELSE "sendEntry"
\* Mutant of Transform: Upper and Lower pass the value on as it came.
TransformNone(t, v) == v

Transform(t, v) ==
    CASE t = "upper" -> ToUpper(v)
      [] t = "lower" -> ToLower(v)
      [] OTHER -> v
SendArg(t) == IF t = "hello" THEN HelloMsg(count) ELSE val[t]

IdleCtl == [pc |-> "idle", kind |-> "none", from |-> OutPort("hello"),
            to |-> InPort("printer"), data |-> NIL, conn |-> NIL, clean |-> TRUE]

ZeroSwaps == [from |-> 0, to |-> 0]

\* Before ConnectString: var conn StringConnection, and nothing runs yet.
NoConn ==
    /\ stop = "nil" /\ exited = "nil" /\ cutOnce = "new" /\ closes = 0
    /\ cutPc = [c \in Cutters |-> "idle"] /\ cutCalls = 0
    /\ pumpPc = "none" /\ pumpVal = Zero
    /\ srcPc = "off" /\ srcCount = 0
    /\ dstPc = "off" /\ dstGot = <<>>
    /\ pumpLate = FALSE
    /\ lowPumpPc = "none" /\ lowPumpVal = Zero
    /\ lowPc = "off" /\ lowGot = <<>>

FlowInit(comps, prog) ==
    /\ components = comps
    /\ data = [p \in Ports |-> NIL]
    /\ pingMade = [p \in Ports |-> 0]
    /\ pingBuf = [p \in Ports |-> 0]
    /\ nextChan = 0
    /\ pc = [t \in Procs |-> "off"]
    /\ sel = [t \in Procs |-> NIL]
    /\ val = [t \in Procs |-> Zero]
    /\ count = 0
    /\ printed = <<>>
    /\ cancelled = FALSE
    /\ runPc = "init"
    /\ runErr = "nil"
    /\ ctl = [c \in Controllers |-> IdleCtl]
    /\ conns = {}
    /\ script = prog
    /\ ops = 0
    /\ log = <<>>
    /\ wake = [t \in Procs |-> "none"]
    /\ nilSwaps = <<>>
    /\ quiet = {}
    /\ cut = {}
    /\ stalled = {}
    /\ nilAtCancel = {}
    /\ ret = [t \in Procs |-> "none"]
    /\ firstBad = "none"

\* The fixed pipeline is not part of the program.
NoPipe ==
    /\ pipeCtx = "none" /\ leak = "none"
    /\ genPc = "off" /\ genI = 0
    /\ upPc = "off" /\ upVal = Zero
    /\ prPc = "off" /\ pipeOut = <<>>
    /\ chanCloses = [c \in PipeChans |-> 0]
    /\ pipeRet = [t \in PipeTasks |-> "none"]
    /\ waitPc = "off"

\* No Port11 is part of the program.
NoPort11 ==
    /\ portPc = "off" /\ portData = NilChan /\ portSel = NilChan
    /\ swapReq = NoRequest
    /\ procStop = FALSE
    /\ offer = [c \in DataChans |-> Zero]
    /\ dataClosed = {}
    /\ recvResult = NoResult
    /\ recvVia = <<"none", NilChan>>

InitWith(comps, prog) ==
    /\ FlowInit(comps, prog)
    /\ NoConn
    /\ NoPipe
    /\ NoPort11

\* ------------------------------------------------------- frame helpers
portVars == <<data, pingMade, pingBuf, nextChan>>
ctlVars == <<ctl, conns, script, ops, nilSwaps, quiet, cut>>
netVars == <<components, runPc>>
workVars == <<val, count, printed, log>>

RecvLoop == {"recvTop", "recvSel", "recvPark"}
SendLoop == {"sendTop", "sendSel", "sendPark"}
ParkPc(p) == IF p[2] = "In" THEN "recvPark" ELSE "sendPark"
\* Mutant of TopPc: a notification ends the call, which is then made anew.
TopPcAbort(p) == IF p[2] = "In" THEN "recvEntry" ELSE "sendEntry"
TopPc(p) == IF p[2] = "In" THEN "recvTop" ELSE "sendTop"
LoopPcs(p) == IF p[2] = "In" THEN RecvLoop ELSE SendLoop

\* ------------------------------------------------------ In.init / Out.init
\* Mutant of PortInit: the ping channel is made anew by every call.
PortInitAlways(p) == [pingMade EXCEPT ![p] = @ + 1]

\* create.Do(func() { ping = make(chan struct{}) }): sync.Once runs the function
\* for the first caller only, and every caller returns after it has run.
PortInit(p) == [pingMade EXCEPT ![p] = IF @ = 0 THEN 1 ELSE @]

\* ---------------------------------------------------------- Network.Run
\* g.Go(func() error { return c.Run(ctx) }) for every registered component.
NetRun ==
    /\ runPc = "init"
    /\ runPc' = "wait"
    /\ pc' = [t \in Procs |-> IF t \in components THEN FirstPc(t) ELSE pc[t]]
    /\ UNCHANGED <<components, pumpVars, extVars, portVars, ctlVars, workVars, sel, cancelled, grpVars,
                   wake, stalled, nilAtCancel>>

\* Mutant of NetWait: Run returns as soon as one goroutine has reported an error.
NetWaitFirstError ==
    /\ runPc = "wait"
    /\ (\A t \in components : pc[t] = "returned") \/ runErr # "nil"
    /\ runPc' = "done"
    /\ UNCHANGED <<components, pumpVars, extVars, portVars, ctlVars, workVars, pc, sel, cancelled,
                   grpVars, wake, stalled, nilAtCancel>>

\* return g.Wait(): blocks until every goroutine has returned.
NetWait ==
    /\ runPc = "wait"
    /\ \A t \in components : pc[t] = "returned"
    /\ runPc' = "done"
    /\ UNCHANGED <<components, pumpVars, extVars, portVars, ctlVars, workVars, pc, sel, cancelled, grpVars,
                   wake, stalled, nilAtCancel>>

\* Mutant of ReturnErr: the component swallows the error and starts over.
ReturnErrSwallowed(t) ==
    /\ pc' = [pc EXCEPT ![t] = FirstPc(t)]
    /\ sel' = [sel EXCEPT ![t] = NIL]
    /\ val' = [val EXCEPT ![t] = Zero]
    /\ wake' = [wake EXCEPT ![t] = "ctx"]
    /\ UNCHANGED <<netVars, pumpVars, extVars, portVars, ctlVars, count, printed, log, cancelled, grpVars,
                   stalled, nilAtCancel>>

\* Mutant of GroupErr: the group keeps the error reported last.
GroupErrLast(e) == IF e # "nil" THEN e ELSE runErr

\* errgroup.Group keeps the first non-nil error its goroutines return.
GroupErr(e) == IF runErr = "nil" THEN e ELSE runErr

\* The function given to g.Go returns e for component t.
Report(t, e) ==
    /\ runErr' = GroupErr(e)
    /\ ret' = [ret EXCEPT ![t] = e]
    /\ firstBad' = IF firstBad = "none" /\ e # "nil" THEN t ELSE firstBad

\* A component's Run returns the error of Recv/Send; the errgroup keeps the first.
ReturnErr(t) ==
    /\ pc' = [pc EXCEPT ![t] = "returned"]
    /\ sel' = [sel EXCEPT ![t] = NIL]
    /\ val' = [val EXCEPT ![t] = Zero]
    /\ wake' = [wake EXCEPT ![t] = "ctx"]
    /\ Report(t, "canceled")
    /\ UNCHANGED <<netVars, pumpVars, extVars, portVars, ctlVars, count, printed, log, cancelled,
                   stalled, nilAtCancel>>

\* The error a component of another kind fails with.
WorkErr(w) == IF w = "w1" THEN "w1 failed" ELSE "w2 failed"

\* Mutant of WorkReturn: the group was made by errgroup.WithContext, and the
\* first error cancels the context of every component.
WorkReturnCancels(w, e) ==
    /\ pc[w] = "work"
    /\ e = "canceled" => cancelled
    /\ pc' = [pc EXCEPT ![w] = "returned"]
    /\ Report(w, e)
    /\ cancelled' = (cancelled \/ e # "nil")
    /\ UNCHANGED <<netVars, pumpVars, extVars, portVars, ctlVars, workVars, sel,
                   wake, stalled, nilAtCancel>>

\* The Run of a component of another kind returns: nil, an error of its
\* own, or ctx.Err() once the context is cancelled.
WorkReturn(w, e) ==
    /\ pc[w] = "work"
    /\ e = "canceled" => cancelled
    /\ pc' = [pc EXCEPT ![w] = "returned"]
    /\ Report(w, e)
    /\ UNCHANGED <<netVars, pumpVars, extVars, portVars, ctlVars, workVars, sel, cancelled,
                   wake, stalled, nilAtCancel>>

\* Mutant of Transfer: the sender's select case lacks its return and the Send
\* goes round its loop again with the value it has already handed over.
TransferNoReturn(s, r, ch) ==
    LET v == SendArg(s) IN
    /\ pc' = [pc EXCEPT ![s] = "sendTop", ![r] = AfterRecvPc(r)]
    /\ sel' = [sel EXCEPT ![s] = NIL, ![r] = NIL]
    /\ val' = [val EXCEPT ![r] = IF r = "printer" THEN Zero ELSE Transform(r, v)]
    /\ printed' = IF r = "printer" THEN Append(printed, v) ELSE printed
    /\ wake' = [wake EXCEPT ![s] = "none", ![r] = "none"]
    /\ log' = Append(log, [snd |-> s, rcv |-> r, ch |-> ch, v |-> v,
                           cut |-> ch \in cut, quiet |-> FALSE])
    /\ UNCHANGED <<netVars, pumpVars, extVars, portVars, ctlVars, count, cancelled, grpVars, stalled,
                   nilAtCancel>>

\* ------------------------------------------------ a completed hand-over
\* The select of sender s and the select of receiver r complete together on
\* channel ch: Send returns nil, Recv returns (v, nil), and each component goes on
\* to its next statement (count++, ToUpper/ToLower, Println).
Transfer(s, r, ch) ==
    LET v == SendArg(s) IN
    /\ pc' = [pc EXCEPT ![s] = AfterSendPc(s), ![r] = AfterRecvPc(r)]
    /\ sel' = [sel EXCEPT ![s] = NIL, ![r] = NIL]
    /\ val' = [val EXCEPT ![s] = Zero,
                          ![r] = IF r = "printer" THEN Zero ELSE Transform(r, v)]
    /\ count' = IF s = "hello" THEN count + 1 ELSE count
    /\ printed' = IF r = "printer" THEN Append(printed, v) ELSE printed
    /\ wake' = [wake EXCEPT ![s] = "none", ![r] = "none"]
    /\ log' = Append(log, [snd |-> s, rcv |-> r, ch |-> ch, v |-> v,
                           cut |-> ch \in cut,
                           quiet |-> \E k \in quiet : /\ k.from = OutPort(s)
                                                      /\ k.to = InPort(r)])
    /\ UNCHANGED <<netVars, pumpVars, extVars, portVars, ctlVars, cancelled, grpVars, stalled, nilAtCancel>>

\* ------------------------------------------------------------- In.Recv
\* in.current()
InCurrent(t) == data[InPort(t)]

\* Mutant of RecvTop: the loop keeps the channel it had instead of reading
\* in.current() again.
RecvTopNoReread(t) ==
    /\ pc' = [pc EXCEPT ![t] = "recvSel"]
    /\ pingBuf' = [pingBuf EXCEPT ![InPort(t)] = IF @ > 0 THEN @ - 1 ELSE @]
    /\ UNCHANGED sel

\* The top of the wait loop, up to the entry of the blocking select:
\*   select { case <-in.ping: default: }     drains a buffered notification
\*   in.current()                             operand of the blocking select
RecvTop(t) ==
    /\ pc' = [pc EXCEPT ![t] = "recvSel"]
    /\ pingBuf' = [pingBuf EXCEPT ![InPort(t)] = IF @ > 0 THEN @ - 1 ELSE @]
    /\ sel' = [sel EXCEPT ![t] = InCurrent(t)]

\* if err := ctx.Err(); err != nil { return zero, err }; in.init(); first iteration
RecvEntry(t) ==
    /\ pc[t] = "recvEntry"
    /\ IF cancelled
       THEN ReturnErr(t)
       ELSE /\ RecvTop(t)
            /\ pingMade' = PortInit(InPort(t))
            /\ wake' = [wake EXCEPT ![t] = "none"]
            /\ UNCHANGED <<netVars, pumpVars, extVars, ctlVars, workVars, data, nextChan,
                           cancelled, grpVars, stalled, nilAtCancel>>

\* A later iteration of the wait loop, after a notification ended the select.
RecvRetry(t) ==
    /\ pc[t] = "recvTop"
    /\ RecvTop(t)
    /\ UNCHANGED <<netVars, pumpVars, extVars, ctlVars, workVars, data, pingMade, nextChan,
                   cancelled, grpVars, wake, stalled, nilAtCancel>>

\* select { case <-ctx.Done(): ...; case v := <-ch: ...; case <-in.ping: }
RecvSelect(t) ==
    LET ch == sel[t]
        p == InPort(t)
        peers == {s \in Senders : pc[s] = "sendPark" /\ sel[s] = ch /\ ch # NIL}
    IN
    /\ pc[t] = "recvSel"
    /\ \/ cancelled /\ ReturnErr(t)
       \/ \E s \in peers : Transfer(s, t, ch)
       \/ /\ pingBuf[p] > 0
          /\ pingBuf' = [pingBuf EXCEPT ![p] = @ - 1]
          /\ pc' = [pc EXCEPT ![t] = "recvTop"]
          /\ sel' = [sel EXCEPT ![t] = NIL]
          /\ wake' = [wake EXCEPT ![t] = "ping"]
          /\ UNCHANGED <<netVars, pumpVars, extVars, ctlVars, workVars, data, pingMade, nextChan,
                         cancelled, grpVars, stalled, nilAtCancel>>
       \/ /\ ~cancelled /\ peers = {} /\ pingBuf[p] = 0
          /\ pc' = [pc EXCEPT ![t] = "recvPark"]
          /\ wake' = [wake EXCEPT ![t] = "none"]
          /\ UNCHANGED <<netVars, pumpVars, extVars, portVars, ctlVars, workVars, sel, cancelled, grpVars,
                         stalled, nilAtCancel>>

\* ------------------------------------------------------------ Out.Send
\* out.current()
OutCurrent(t) == data[OutPort(t)]

\* The top of the wait loop, up to the entry of the blocking select:
\*   select { case <-out.ping: default: }    drains a buffered notification
\*   out.current()                            operand of the blocking select
SendTop(t) ==
    /\ pc' = [pc EXCEPT ![t] = "sendSel"]
    /\ pingBuf' = [pingBuf EXCEPT ![OutPort(t)] = IF @ > 0 THEN @ - 1 ELSE @]
    /\ sel' = [sel EXCEPT ![t] = OutCurrent(t)]

\* Mutant of SendEntry: Send does not look at ctx.Err() before its loop.
SendEntryNoCheck(t) ==
    /\ pc[t] = "sendEntry"
    /\ t = "hello" => (count < MaxCount \/ cancelled)
    /\ SendTop(t)
    /\ pingMade' = PortInit(OutPort(t))
    /\ wake' = [wake EXCEPT ![t] = "none"]
    /\ UNCHANGED <<netVars, pumpVars, extVars, ctlVars, workVars, data, nextChan,
                   cancelled, grpVars, stalled, nilAtCancel>>

\* if err := ctx.Err(); err != nil { return err }; out.init(); first iteration
SendEntry(t) ==
    /\ pc[t] = "sendEntry"
    /\ t = "hello" => (count < MaxCount \/ cancelled)
    /\ IF cancelled
       THEN ReturnErr(t)
       ELSE /\ SendTop(t)
            /\ pingMade' = PortInit(OutPort(t))
            /\ wake' = [wake EXCEPT ![t] = "none"]
            /\ UNCHANGED <<netVars, pumpVars, extVars, ctlVars, workVars, data, nextChan,
                           cancelled, grpVars, stalled, nilAtCancel>>

\* A later iteration of the wait loop, after a notification ended the select.
SendRetry(t) ==
    /\ pc[t] = "sendTop"
    /\ SendTop(t)
    /\ UNCHANGED <<netVars, pumpVars, extVars, ctlVars, workVars, data, pingMade, nextChan,
                   cancelled, grpVars, wake, stalled, nilAtCancel>>

\* select { case <-ctx.Done(): ...; case ch <- v: ...; case <-out.ping: }
SendSelect(t) ==
    LET ch == sel[t]
        p == OutPort(t)
        peers == {r \in Receivers : pc[r] = "recvPark" /\ sel[r] = ch /\ ch # NIL}
    IN
    /\ pc[t] = "sendSel"
    /\ \/ cancelled /\ ReturnErr(t)
       \/ \E r \in peers : Transfer(t, r, ch)
       \/ /\ pingBuf[p] > 0
          /\ pingBuf' = [pingBuf EXCEPT ![p] = @ - 1]
          /\ pc' = [pc EXCEPT ![t] = "sendTop"]
          /\ sel' = [sel EXCEPT ![t] = NIL]
          /\ wake' = [wake EXCEPT ![t] = "ping"]
          /\ UNCHANGED <<netVars, pumpVars, extVars, ctlVars, workVars, data, pingMade, nextChan,
                         cancelled, grpVars, stalled, nilAtCancel>>
       \/ /\ ~cancelled /\ peers = {} /\ pingBuf[p] = 0
          /\ pc' = [pc EXCEPT ![t] = "sendPark"]
          /\ wake' = [wake EXCEPT ![t] = "none"]
          /\ UNCHANGED <<netVars, pumpVars, extVars, portVars, ctlVars, workVars, sel, cancelled, grpVars,
                         stalled, nilAtCancel>>

\* Mutant of ReturnCtx: a call woken by ctx.Done() goes round its loop again.
ReturnCtxRetry(t) ==
    /\ pc[t] \in {"recvCtx", "sendCtx"}
    /\ pc' = [pc EXCEPT ![t] = IF pc[t] = "recvCtx" THEN "recvTop" ELSE "sendTop"]
    /\ UNCHANGED <<netVars, pumpVars, extVars, portVars, ctlVars, workVars, sel, cancelled, grpVars, wake,
                   stalled, nilAtCancel>>

\* A goroutine woken from its parked select by ctx.Done() returns ctx.Err().
ReturnCtx(t) ==
    /\ pc[t] \in {"recvCtx", "sendCtx"}
    /\ ReturnErr(t)

\* ------------------------------------------------------------- context
\* The caller's cancel(): Done is closed and every parked select takes that case.
Cancel ==
    /\ ~cancelled
    /\ cancelled' = TRUE
    /\ pc' = [t \in Procs |->
                CASE pc[t] = "recvPark" -> "recvCtx"
                  [] pc[t] = "sendPark" -> "sendCtx"
                  [] OTHER -> pc[t]]
    /\ nilAtCancel' = {t \in Components :
                          pc[t] \in {"recvPark", "sendPark"} /\ sel[t] = NIL}
    /\ stalled' = {}
    /\ UNCHANGED <<netVars, pumpVars, extVars, portVars, ctlVars, workVars, sel, grpVars, wake>>

\* ------------------------------------------------- Connect / Disconnect
\* Another controller is inside a Connect on one of the ports of Conn k.
Rewiring(c, k) ==
    \E d \in Controllers \ {c} :
        /\ ctl[d].kind = "connect"
        /\ (ctl[d].from = k.from \/ ctl[d].to = k.to)

\* Mutant of DoConnect: every Connect installs one and the same channel.
DoConnectShared(c, o, i) ==
    /\ ctl[c].pc = "idle"
    /\ nextChan' = nextChan + 1
    /\ nilSwaps' = Append(nilSwaps, ZeroSwaps)
    /\ ctl' = [ctl EXCEPT ![c] = [pc |-> "fromSet", kind |-> "connect", from |-> o,
                                  to |-> i, data |-> 1, conn |-> nextChan + 1,
                                  clean |-> TRUE]]
    /\ quiet' = {k \in quiet : k.from # o /\ k.to # i}
    /\ UNCHANGED <<netVars, pumpVars, extVars, workVars, data, pingMade, pingBuf, pc, sel,
                   cancelled, grpVars, conns, cut, wake, stalled, nilAtCancel>>

\* conn := Conn[T]{from, to}; data := make(chan T); then conn.from.swap(data)
DoConnect(c, o, i) ==
    /\ ctl[c].pc = "idle"
    /\ nextChan' = nextChan + 1
    /\ nilSwaps' = Append(nilSwaps, ZeroSwaps)
    /\ ctl' = [d \in Controllers |->
                IF d = c
                THEN [pc |-> "fromSet", kind |-> "connect", from |-> o, to |-> i,
                      data |-> nextChan + 1, conn |-> nextChan + 1, clean |-> TRUE]
                ELSE IF ctl[d].kind = "disconnect"
                THEN [ctl[d] EXCEPT !.clean = @ /\ ctl[d].from # o /\ ctl[d].to # i]
                ELSE ctl[d]]
    /\ quiet' = {k \in quiet : k.from # o /\ k.to # i}
    /\ UNCHANGED <<netVars, pumpVars, extVars, workVars, data, pingMade, pingBuf, pc, sel, cancelled,
                   grpVars, conns, cut, wake, stalled, nilAtCancel>>

\* conn.Disconnect(): conn.from.swap(nil), then conn.to.swap(nil)
DoDisconnect(c, k) ==
    /\ ctl[c].pc = "idle"
    /\ ctl' = [ctl EXCEPT ![c] = [pc |-> "fromSet", kind |-> "disconnect",
                                  from |-> k.from, to |-> k.to, data |-> NIL,
                                  conn |-> k.id, clean |-> ~Rewiring(c, k)]]
    /\ UNCHANGED <<netVars, pumpVars, extVars, portVars, workVars, pc, sel, cancelled, grpVars, conns,
                   nilSwaps, quiet, cut, wake, stalled, nilAtCancel>>

\* The port the swap in progress works on.
SwapPort(c) == IF ctl[c].pc \in {"fromSet", "fromPing"} THEN ctl[c].from ELSE ctl[c].to

\* swap, first half: init(); mu.Lock(); data = data; mu.Unlock()
SwapSet(c) ==
    LET p == SwapPort(c)
        side == IF ctl[c].pc = "fromSet" THEN "from" ELSE "to"
    IN
    /\ ctl[c].pc \in {"fromSet", "toSet"}
    /\ data' = [data EXCEPT ![p] = ctl[c].data]
    /\ pingMade' = PortInit(p)
    /\ ctl' = [ctl EXCEPT ![c].pc = IF side = "from" THEN "fromPing" ELSE "toPing"]
    /\ nilSwaps' = IF ctl[c].kind = "disconnect"
                   THEN [nilSwaps EXCEPT ![ctl[c].conn][side] = @ + 1]
                   ELSE nilSwaps
    /\ stalled' = IF ctl[c].data # NIL THEN stalled \ {p} ELSE stalled
    /\ UNCHANGED <<netVars, pumpVars, extVars, workVars, pingBuf, nextChan, pc, sel, cancelled, grpVars,
                   conns, script, ops, quiet, cut, wake, nilAtCancel>>

\* Mutant of SwapPing: the notification is a plain send, ping <- struct{}{}.
SwapPingBlocking(c) ==
    LET p == SwapPort(c)
        t == Owner(p)
        last == ctl[c].pc = "toPing"
        k == [id |-> ctl[c].conn, from |-> ctl[c].from, to |-> ctl[c].to]
    IN
    /\ ctl[c].pc \in {"fromPing", "toPing"}
    /\ pc[t] = ParkPc(p)
    /\ pc' = [pc EXCEPT ![t] = TopPc(p)]
    /\ sel' = [sel EXCEPT ![t] = NIL]
    /\ wake' = [wake EXCEPT ![t] = "ping"]
    /\ stalled' = IF ctl[c].data = NIL /\ data[p] = NIL THEN stalled \cup {p} ELSE stalled
    /\ ctl' = [ctl EXCEPT ![c] = IF last THEN IdleCtl ELSE [@ EXCEPT !.pc = "toSet"]]
    /\ conns' = IF last /\ ctl[c].kind = "connect" THEN conns \cup {k} ELSE conns
    /\ cut' = IF last /\ ctl[c].kind = "disconnect" THEN cut \cup {k.id} ELSE cut
    /\ quiet' = IF last /\ ctl[c].kind = "disconnect" /\ ctl[c].clean
                THEN quiet \cup {k} ELSE quiet
    /\ UNCHANGED <<netVars, pumpVars, extVars, workVars, portVars, cancelled, grpVars,
                   script, ops, nilSwaps, nilAtCancel>>

\* swap, second half: select { case ping <- struct{}{}: default: }
\* After to.swap the call returns: Connect returns &conn, Disconnect returns.
SwapPing(c) ==
    LET p == SwapPort(c)
        t == Owner(p)
        parked == pc[t] = ParkPc(p)
        last == ctl[c].pc = "toPing"
        k == [id |-> ctl[c].conn, from |-> ctl[c].from, to |-> ctl[c].to]
    IN
    /\ ctl[c].pc \in {"fromPing", "toPing"}
    /\ IF parked
       THEN /\ pc' = [pc EXCEPT ![t] = TopPc(p)]
            /\ sel' = [sel EXCEPT ![t] = NIL]
            /\ wake' = [wake EXCEPT ![t] = "ping"]
            /\ stalled' = IF ctl[c].data = NIL /\ data[p] = NIL
                          THEN stalled \cup {p} ELSE stalled
            /\ UNCHANGED pingBuf
       ELSE /\ pingBuf' = [pingBuf EXCEPT ![p] = IF @ < PingCap THEN @ + 1 ELSE @]
            /\ UNCHANGED <<pc, sel, wake, stalled>>
    /\ ctl' = [ctl EXCEPT ![c] = IF last THEN IdleCtl ELSE [@ EXCEPT !.pc = "toSet"]]
    /\ conns' = IF last /\ ctl[c].kind = "connect" THEN conns \cup {k} ELSE conns
    /\ cut' = IF last /\ ctl[c].kind = "disconnect" THEN cut \cup {k.id} ELSE cut
    /\ quiet' = IF last /\ ctl[c].kind = "disconnect" /\ ctl[c].clean
                THEN quiet \cup {k} ELSE quiet
    /\ UNCHANGED <<netVars, pumpVars, extVars, workVars, data, pingMade, nextChan, cancelled, grpVars,
                   script, ops, nilSwaps, nilAtCancel>>

\* A controller goroutine calls Connect on any two ports of the network.
CallConnect(c, o, i) ==
    /\ ops < MaxOps
    /\ nextChan < MaxChan
    /\ Owner(o) \in components /\ Owner(i) \in components
    /\ DoConnect(c, o, i)
    /\ ops' = ops + 1
    /\ UNCHANGED script

\* A controller goroutine calls Disconnect on any Conn it was handed.
CallDisconnect(c, k) ==
    /\ ops < MaxOps
    /\ DoDisconnect(c, k)
    /\ ops' = ops + 1
    /\ UNCHANGED script

\* ---------------------------------------------------------------- main
\* The controller program of the demo's main, after go net.Run(ctx): Conns are
\* named by the order of their Connect calls.
MainScript == <<
    [op |-> "connect", from |-> OutPort("hello"), to |-> InPort("upper")],
    [op |-> "connect", from |-> OutPort("upper"), to |-> InPort("printer")],
    [op |-> "sleep"],
    [op |-> "disconnect", conn |-> 1],
    [op |-> "disconnect", conn |-> 2],
    [op |-> "connect", from |-> OutPort("hello"), to |-> InPort("lower")],
    [op |-> "connect", from |-> OutPort("lower"), to |-> InPort("printer")],
    [op |-> "sleep"],
    [op |-> "disconnect", conn |-> 3],
    [op |-> "disconnect", conn |-> 4] >>

ScriptConnect ==
    /\ script # <<>> /\ Head(script).op = "connect"
    /\ DoConnect("main", Head(script).from, Head(script).to)
    /\ script' = Tail(script)
    /\ ops' = ops + 1

ScriptDisconnect ==
    /\ script # <<>> /\ Head(script).op = "disconnect"
    /\ \E k \in conns : k.id = Head(script).conn /\ DoDisconnect("main", k)
    /\ script' = Tail(script)
    /\ ops' = ops + 1

\* time.Sleep(3 * time.Second): time passes, nothing else is promised.
ScriptSleep ==
    /\ script # <<>> /\ Head(script).op = "sleep"
    /\ ctl["main"].pc = "idle"
    /\ script' = Tail(script)
    /\ UNCHANGED <<netVars, pumpVars, extVars, portVars, workVars, pc, sel, cancelled, grpVars, ctl, conns,
                   ops, nilSwaps, quiet, cut, wake, stalled, nilAtCancel>>

\* ---------------------------------------------------- StringConnection
\* conn := ConnectString(hello.Out, in), in being the In channel of the
\* component wired to Hello (upper.In in main's loop): conn.pump makes stop and
\* exited and starts the pump goroutine, which enters its outer select.
ConnectString ==
    /\ pumpPc = "none"
    /\ stop' = "open" /\ exited' = "open"
    /\ pumpPc' = "outer"
    /\ UNCHANGED <<flowVars, grpVars, extVars, lowVars, cutOnce, closes, cutPc, cutCalls, pumpVal, pumpLate,
                   srcPc, srcCount, dstPc, dstGot>>

\* network.Run(ctx) starts Hello.Run and the Run of the receiving components.
PumpNetRun ==
    /\ srcPc = "off" /\ dstPc = "off"
    /\ srcPc' = "send" /\ dstPc' = "recv" /\ lowPc' = "recv"
    /\ UNCHANGED <<flowVars, grpVars, extVars, lowPumpPc, lowPumpVal, lowGot, stop, exited,
                   cutOnce, closes, cutPc, cutCalls, pumpPc, pumpVal, pumpLate, srcCount,
                   dstGot>>

\* Outer select, case val := <-out, together with Hello's case
\* hello.Out <- fmt.Sprintf("Hello %d", count); Hello goes on to time.After.
\* A select with several ready cases takes any of them: the pump may take a
\* value although stop is closed already.
PumpTake ==
    /\ pumpPc = "outer" /\ srcPc = "send"
    /\ pumpVal' = HelloMsg(srcCount)
    /\ pumpLate' = (stop = "closed")
    /\ pumpPc' = "inner"
    /\ srcPc' = "sleep" /\ srcCount' = srcCount + 1
    /\ UNCHANGED <<flowVars, grpVars, extVars, lowVars, stop, exited, cutOnce, closes, cutPc, cutCalls,
                   dstPc, dstGot>>

\* Mutant of PumpGive: the pump hands val over and goes on holding it.
PumpGiveAgain ==
    /\ pumpPc = "inner" /\ dstPc = "recv"
    /\ dstGot' = Append(dstGot, pumpVal)
    /\ pumpLate' = FALSE
    /\ UNCHANGED <<flowVars, grpVars, extVars, lowVars, stop, exited, cutOnce, closes, cutPc,
                   cutCalls, pumpPc, pumpVal, srcPc, srcCount, dstPc>>

\* Inner select, case in <- val, together with the receiving component's case
\* value, ok := <-In and what it does with the value.
PumpGive ==
    /\ pumpPc = "inner" /\ dstPc = "recv"
    /\ dstGot' = Append(dstGot, pumpVal)
    /\ pumpVal' = Zero
    /\ pumpLate' = FALSE
    /\ pumpPc' = "outer"
    /\ UNCHANGED <<flowVars, grpVars, extVars, lowVars, stop, exited, cutOnce, closes, cutPc, cutCalls,
                   srcPc, srcCount, dstPc>>

\* Mutant of PumpExit: the inner select has no case <-conn.stop.
PumpExitOuterOnly ==
    /\ pumpPc = "outer" /\ stop = "closed"
    /\ pumpPc' = "exited"
    /\ exited' = "closed"
    /\ UNCHANGED <<flowVars, grpVars, extVars, lowVars, stop, cutOnce, closes, cutPc, cutCalls, pumpVal, pumpLate,
                   srcPc, srcCount, dstPc, dstGot>>

\* case <-conn.stop: return, in either select; the deferred close(conn.exited)
\* runs.  A value the pump holds is dropped with it.
PumpExit ==
    /\ pumpPc \in {"outer", "inner"} /\ stop = "closed"
    /\ pumpPc' = "exited"
    /\ exited' = "closed"
    /\ UNCHANGED <<flowVars, grpVars, extVars, lowVars, stop, cutOnce, closes, cutPc, cutCalls, pumpVal, pumpLate,
                   srcPc, srcCount, dstPc, dstGot>>

\* Hello.Run: case <-time.After(hello.Interval), then the next count.
SrcWake ==
    /\ srcPc = "sleep" /\ srcCount < MaxCount
    /\ srcPc' = "send"
    /\ UNCHANGED <<flowVars, grpVars, extVars, lowVars, stop, exited, cutOnce, closes, cutPc, cutCalls,
                   pumpPc, pumpVal, pumpLate, srcCount, dstPc, dstGot>>

\* Hello.Run: case <-ctx.Done(): return ctx.Err(), in either select.
SrcReturn ==
    /\ cancelled /\ srcPc \in {"send", "sleep"}
    /\ srcPc' = "returned"
    /\ UNCHANGED <<flowVars, grpVars, extVars, lowVars, stop, exited, cutOnce, closes, cutPc, cutCalls,
                   pumpPc, pumpVal, pumpLate, srcCount, dstPc, dstGot>>

\* Printer.Run: case <-ctx.Done(): return ctx.Err()
DstReturn ==
    /\ cancelled /\ dstPc = "recv"
    /\ dstPc' = "returned"
    /\ UNCHANGED <<flowVars, grpVars, extVars, lowVars, stop, exited, cutOnce, closes, cutPc, cutCalls,
                   pumpPc, pumpVal, pumpLate, srcPc, srcCount, dstGot>>

\* A goroutine holding the *StringConnection calls conn.Cut().
CutCall(c) ==
    /\ pumpPc # "none" /\ cutCalls < MaxCuts
    /\ cutPc[c] \in {"idle", "returned"}
    /\ cutPc' = [cutPc EXCEPT ![c] = "do"]
    /\ cutCalls' = cutCalls + 1
    /\ UNCHANGED <<flowVars, grpVars, extVars, lowVars, stop, exited, cutOnce, closes, pumpPc, pumpVal, pumpLate,
                   srcPc, srcCount, dstPc, dstGot>>

\* Mutant of CutDo: Cut closes stop without the sync.Once.
CutDoNoOnce(c) ==
    /\ cutPc[c] = "do"
    /\ cutPc' = [cutPc EXCEPT ![c] = "close"]
    /\ UNCHANGED <<flowVars, grpVars, extVars, lowVars, stop, exited, cutOnce, closes, cutCalls, pumpPc,
                   pumpVal, pumpLate, srcPc, srcCount, dstPc, dstGot>>

\* conn.cut.Do(f): the first caller runs f; a caller that arrives while f runs
\* waits for it; a caller that arrives after f has run goes on at once.
CutDo(c) ==
    /\ cutPc[c] = "do"
    /\ cutOnce # "busy"
    /\ cutPc' = [cutPc EXCEPT ![c] = IF cutOnce = "new" THEN "close" ELSE "wait"]
    /\ cutOnce' = IF cutOnce = "new" THEN "busy" ELSE cutOnce
    /\ UNCHANGED <<flowVars, grpVars, extVars, lowVars, stop, exited, closes, cutCalls, pumpPc, pumpVal, pumpLate,
                   srcPc, srcCount, dstPc, dstGot>>

\* f: close(conn.stop), after which Do returns.
CutClose(c) ==
    /\ cutPc[c] = "close"
    /\ stop' = "closed"
    /\ closes' = closes + 1
    /\ cutOnce' = "done"
    /\ cutPc' = [cutPc EXCEPT ![c] = "wait"]
    /\ UNCHANGED <<flowVars, grpVars, extVars, lowVars, exited, cutCalls, pumpPc, pumpVal, pumpLate,
                   srcPc, srcCount, dstPc, dstGot>>

\* Mutant of CutWait: Cut returns without waiting for the pump.
CutWaitNoWait(c) ==
    /\ cutPc[c] = "wait"
    /\ cutPc' = [cutPc EXCEPT ![c] = "returned"]
    /\ UNCHANGED <<flowVars, grpVars, extVars, lowVars, stop, exited, cutOnce, closes,
                   cutCalls, pumpPc, pumpVal, pumpLate, srcPc, srcCount, dstPc, dstGot>>

\* <-conn.exited, and Cut returns.
CutWait(c) ==
    /\ cutPc[c] = "wait"
    /\ exited = "closed"
    /\ cutPc' = [cutPc EXCEPT ![c] = "returned"]
    /\ UNCHANGED <<flowVars, grpVars, extVars, lowVars, stop, exited, cutOnce, closes, cutCalls, pumpPc,
                   pumpVal, pumpLate, srcPc, srcCount, dstPc, dstGot>>

CutStep(c) == CutDo(c) \/ CutClose(c) \/ CutWait(c)

\* main's configuration goroutine, which is the Cutter c1 there: once
\* helloToUpper.Cut() has returned, helloToLower := ConnectString(hello.Out,
\* lower.In) starts the next pump on hello.Out.
ConnectLower ==
    /\ cutPc["c1"] = "returned"
    /\ lowPumpPc = "none"
    /\ lowPumpPc' = "outer"
    /\ UNCHANGED <<flowVars, grpVars, extVars, lowPumpVal, lowPc, lowGot, stop, exited,
                   cutOnce, closes, cutPc, cutCalls, pumpPc, pumpVal, pumpLate,
                   srcPc, srcCount, dstPc, dstGot>>

\* The pump of helloToLower: outer select, case val := <-out.
LowerTake ==
    /\ lowPumpPc = "outer" /\ srcPc = "send"
    /\ lowPumpVal' = HelloMsg(srcCount)
    /\ lowPumpPc' = "inner"
    /\ srcPc' = "sleep" /\ srcCount' = srcCount + 1
    /\ UNCHANGED <<flowVars, grpVars, extVars, lowPc, lowGot, stop, exited, cutOnce,
                   closes, cutPc, cutCalls, pumpPc, pumpVal, pumpLate, dstPc, dstGot>>

\* The pump of helloToLower: inner select, case in <- val.
LowerGive ==
    /\ lowPumpPc = "inner" /\ lowPc = "recv"
    /\ lowGot' = Append(lowGot, lowPumpVal)
    /\ lowPumpVal' = Zero
    /\ lowPumpPc' = "outer"
    /\ UNCHANGED <<flowVars, grpVars, extVars, lowPc, stop, exited, cutOnce, closes,
                   cutPc, cutCalls, pumpPc, pumpVal, pumpLate, srcPc, srcCount, dstPc,
                   dstGot>>

\* The component wired to helloToLower: case <-ctx.Done(): return ctx.Err()
LowReturn ==
    /\ cancelled /\ lowPc = "recv"
    /\ lowPc' = "returned"
    /\ UNCHANGED <<flowVars, grpVars, extVars, lowPumpPc, lowPumpVal, lowGot, stop, exited,
                   cutOnce, closes, cutPc, cutCalls, pumpPc, pumpVal, pumpLate,
                   srcPc, srcCount, dstPc, dstGot>>

\* ------------------------------------------------------- fixed pipeline
\* The pipeline of 00-adhoc (and of Hello.Run / Upper.Run / Printer.Run
\* without a context) is the program with pipeCtx = "none": its tasks send,
\* receive with range and never look at a context.  With pipeCtx # "none"
\* every blocking operation is a select with a case <-ctx.Done().
\* leak names the component of the package comment's problem 2, a component
\* written without its close: "none" is the program as it stands.

\* strings.ToUpper(value)
UpperOf(v) == ToUpper(v)

\* case upcaseIn <- fmt.Sprintf("Hello %d", i), together with upcase's
\* receive of it (range upcaseIn; case value, ok := <-upcaseIn) and its
\* value = strings.ToUpper(value).
GenSend ==
    /\ genPc = "loop" /\ genI < HelloCount
    /\ upPc = "recv"
    /\ upVal' = UpperOf(HelloMsg(genI))
    /\ upPc' = "send"
    /\ genI' = genI + 1
    /\ UNCHANGED <<flowVars, grpVars, pumpVars, port11Vars, pipeCtx, leak, genPc, prPc,
                   pipeOut, chanCloses, pipeRet, waitPc>>

\* i < 10 fails: return nil, the deferred close still to run.
GenExit ==
    /\ genPc = "loop" /\ genI = HelloCount
    /\ pipeRet' = [pipeRet EXCEPT !["generator"] = "nil"]
    /\ genPc' = "defer"
    /\ UNCHANGED <<flowVars, grpVars, pumpVars, port11Vars, pipeCtx, leak, genI, upPc, upVal,
                   prPc, pipeOut, chanCloses, waitPc>>

\* case <-ctx.Done(): return ctx.Err()
GenCtx ==
    /\ pipeCtx = "done"
    /\ genPc = "loop" /\ genI < HelloCount
    /\ pipeRet' = [pipeRet EXCEPT !["generator"] = "ctx"]
    /\ genPc' = "defer"
    /\ UNCHANGED <<flowVars, grpVars, pumpVars, port11Vars, pipeCtx, leak, genI, upPc, upVal,
                   prPc, pipeOut, chanCloses, waitPc>>

\* defer close(upcaseIn), and the task has returned.
GenClose ==
    /\ genPc = "defer"
    /\ chanCloses' = IF leak = "generator" THEN chanCloses
                     ELSE [chanCloses EXCEPT !["upcaseIn"] = @ + 1]
    /\ genPc' = "returned"
    /\ UNCHANGED <<flowVars, grpVars, pumpVars, port11Vars, pipeCtx, leak, genI, upPc, upVal,
                   prPc, pipeOut, pipeRet, waitPc>>

\* range upcaseIn ends / value, ok := <-upcaseIn with !ok: return nil
UpRecvClosed ==
    /\ upPc = "recv"
    /\ chanCloses["upcaseIn"] > 0
    /\ pipeRet' = [pipeRet EXCEPT !["upcase"] = "nil"]
    /\ upPc' = "defer"
    /\ UNCHANGED <<flowVars, grpVars, pumpVars, port11Vars, pipeCtx, leak, genPc, genI, upVal,
                   prPc, pipeOut, chanCloses, waitPc>>

\* Mutant of UpCtx: the inner select has no case <-ctx.Done().
UpCtxOuterOnly ==
    /\ pipeCtx = "done"
    /\ upPc = "recv"
    /\ pipeRet' = [pipeRet EXCEPT !["upcase"] = "ctx"]
    /\ upPc' = "defer"
    /\ UNCHANGED <<flowVars, grpVars, pumpVars, port11Vars, pipeCtx, leak, genPc, genI, upVal,
                   prPc, pipeOut, chanCloses, waitPc>>

\* case <-ctx.Done(): return ctx.Err(), of the outer and of the inner select
UpCtx ==
    /\ pipeCtx = "done"
    /\ upPc \in {"recv", "send"}
    /\ pipeRet' = [pipeRet EXCEPT !["upcase"] = "ctx"]
    /\ upPc' = "defer"
    /\ UNCHANGED <<flowVars, grpVars, pumpVars, port11Vars, pipeCtx, leak, genPc, genI, upVal,
                   prPc, pipeOut, chanCloses, waitPc>>

\* upcaseOut <- value, together with the printer's receive of it (range
\* printerIn; case value, ok := <-printerIn) and its fmt.Println(value).
UpSend ==
    /\ upPc = "send" /\ prPc = "recv"
    /\ pipeOut' = Append(pipeOut, upVal)
    /\ upVal' = Zero
    /\ upPc' = "recv"
    /\ UNCHANGED <<flowVars, grpVars, pumpVars, port11Vars, pipeCtx, leak, genPc, genI, prPc,
                   chanCloses, pipeRet, waitPc>>

\* Mutant of UpClose: upcase returns and leaves upcaseOut open.
UpCloseNot ==
    /\ upPc = "defer"
    /\ upPc' = "returned"
    /\ UNCHANGED <<flowVars, grpVars, pumpVars, port11Vars, pipeCtx, leak, genPc, genI, upVal,
                   prPc, pipeOut, chanCloses, pipeRet, waitPc>>

\* defer close(upcaseOut), and the task has returned.
UpClose ==
    /\ upPc = "defer"
    /\ chanCloses' = IF leak = "upcase" THEN chanCloses
                     ELSE [chanCloses EXCEPT !["upcaseOut"] = @ + 1]
    /\ upPc' = "returned"
    /\ UNCHANGED <<flowVars, grpVars, pumpVars, port11Vars, pipeCtx, leak, genPc, genI, upVal,
                   prPc, pipeOut, pipeRet, waitPc>>

\* Mutant of PrRecvClosed: the printer leaves once its sender has returned.
PrRecvSenderGone ==
    /\ prPc = "recv"
    /\ upPc = "returned"
    /\ pipeRet' = [pipeRet EXCEPT !["printer"] = "nil"]
    /\ prPc' = "returned"
    /\ UNCHANGED <<flowVars, grpVars, pumpVars, port11Vars, pipeCtx, leak, genPc, genI, upPc,
                   upVal, pipeOut, chanCloses, waitPc>>

\* range printerIn ends / value, ok := <-printerIn with !ok: return nil
PrRecvClosed ==
    /\ prPc = "recv"
    /\ chanCloses["upcaseOut"] > 0
    /\ pipeRet' = [pipeRet EXCEPT !["printer"] = "nil"]
    /\ prPc' = "returned"
    /\ UNCHANGED <<flowVars, grpVars, pumpVars, port11Vars, pipeCtx, leak, genPc, genI, upPc,
                   upVal, pipeOut, chanCloses, waitPc>>

\* case <-ctx.Done(): return ctx.Err()
PrCtx ==
    /\ pipeCtx = "done"
    /\ prPc = "recv"
    /\ pipeRet' = [pipeRet EXCEPT !["printer"] = "ctx"]
    /\ prPc' = "returned"
    /\ UNCHANGED <<flowVars, grpVars, pumpVars, port11Vars, pipeCtx, leak, genPc, genI, upPc,
                   upVal, pipeOut, chanCloses, waitPc>>

\* The signal arrives: signal.NotifyContext cancels ctx.
PipeCancel ==
    /\ pipeCtx = "live"
    /\ pipeCtx' = "done"
    /\ UNCHANGED <<flowVars, grpVars, pumpVars, port11Vars, leak, genPc, genI, upPc, upVal,
                   prPc, pipeOut, chanCloses, pipeRet, waitPc>>

\* defer processes.Wait() / group.Wait() in Network.Run returns once every
\* task has returned.
PipeWait ==
    /\ waitPc = "waiting"
    /\ genPc = "returned" /\ upPc = "returned" /\ prPc = "returned"
    /\ waitPc' = "returned"
    /\ UNCHANGED <<flowVars, grpVars, pumpVars, port11Vars, pipeCtx, leak, genPc, genI, upPc,
                   upVal, prPc, pipeOut, chanCloses, pipeRet>>

GenStep == GenSend \/ GenExit \/ GenCtx \/ GenClose
UpStep == UpRecvClosed \/ UpCtx \/ UpSend \/ UpClose
PrStep == PrRecvClosed \/ PrCtx

\* ------------------------------------------------------------ Port11.Recv
\* Port11 is made nowhere in the repository: Swap is taken to be unbuffered, as
\* every channel the repository makes is, and the goroutines around the port
\* (the senders on the data channels, the requester of a swap, whoever closes
\* Process.Stop) are free.

\* A sender arrives at its send of v on data channel c.
Feed(c, v) ==
    /\ portPc # "off"
    /\ c \notin dataClosed /\ offer[c] = Zero
    /\ offer' = [offer EXCEPT ![c] = v]
    /\ UNCHANGED <<flowVars, grpVars, pumpVars, pipeVars, portPc, portData, portSel, swapReq,
                   procStop, dataClosed, recvResult, recvVia>>

\* The sender of data channel c closes it after its last send.
CloseData(c) ==
    /\ portPc # "off"
    /\ c \notin dataClosed /\ offer[c] = Zero
    /\ dataClosed' = dataClosed \cup {c}
    /\ UNCHANGED <<flowVars, grpVars, pumpVars, pipeVars, portPc, portData, portSel, swapReq,
                   procStop, offer, recvResult, recvVia>>

\* close(process.Stop)
StopFires ==
    /\ portPc # "off" /\ ~procStop
    /\ procStop' = TRUE
    /\ UNCHANGED <<flowVars, grpVars, pumpVars, pipeVars, portPc, portData, portSel, swapReq,
                   offer, dataClosed, recvResult, recvVia>>

\* A requester arrives at port.Swap <- &Port11ChangeRequest{New: new, ...}.
Request(new) ==
    /\ portPc # "off"
    /\ swapReq.pc \in {"none", "called"}
    /\ swapReq' = [New |-> new, pc |-> "sending"]
    /\ UNCHANGED <<flowVars, grpVars, pumpVars, pipeVars, portPc, portData, portSel, procStop,
                   offer, dataClosed, recvResult, recvVia>>

\* The component calls port.Recv(): the select is entered, port.Data is read.
Port11Call ==
    /\ portPc = "idle"
    /\ portPc' = "select"
    /\ portSel' = portData
    /\ UNCHANGED <<flowVars, grpVars, pumpVars, pipeVars, portData, swapReq, procStop, offer,
                   dataClosed, recvResult, recvVia>>

\* case swap := <-port.Swap: port.Data = swap.New
Port11Swap ==
    /\ portPc = "select"
    /\ swapReq.pc = "sending"
    /\ portData' = swapReq.New
    /\ swapReq' = [swapReq EXCEPT !.pc = "sent"]
    /\ portPc' = "swapped"
    /\ UNCHANGED <<flowVars, grpVars, pumpVars, pipeVars, portSel, procStop, offer, dataClosed,
                   recvResult, recvVia>>

\* swap.Swapped()
Port11Swapped ==
    /\ portPc = "swapped"
    /\ swapReq' = [swapReq EXCEPT !.pc = "called"]
    /\ portPc' = "retry"
    /\ UNCHANGED <<flowVars, grpVars, pumpVars, pipeVars, portData, portSel, procStop, offer,
                   dataClosed, recvResult, recvVia>>

\* Mutant of Port11Retry: the select is taken up again with the operands it had.
Port11RetryStale ==
    /\ portPc = "retry"
    /\ portPc' = "select"
    /\ UNCHANGED <<flowVars, grpVars, pumpVars, pipeVars, portData, portSel, swapReq, procStop,
                   offer, dataClosed, recvResult, recvVia>>

\* goto retry: the select is entered anew, port.Data is read again.
Port11Retry ==
    /\ portPc = "retry"
    /\ portPc' = "select"
    /\ portSel' = portData
    /\ UNCHANGED <<flowVars, grpVars, pumpVars, pipeVars, portData, swapReq, procStop, offer,
                   dataClosed, recvResult, recvVia>>

\* case <-port.Process.Stop: return "", false
Port11Stop ==
    /\ portPc = "select"
    /\ procStop
    /\ recvResult' = [value |-> Zero, ok |-> FALSE]
    /\ recvVia' = <<"stop", NilChan>>
    /\ portPc' = "idle"
    /\ UNCHANGED <<flowVars, grpVars, pumpVars, pipeVars, portData, portSel, swapReq, procStop,
                   offer, dataClosed>>

\* case value, ok := <-port.Data: return value, ok, a sender being there
Port11Data ==
    /\ portPc = "select"
    /\ portSel # NilChan
    /\ offer[portSel] # Zero
    /\ recvResult' = [value |-> offer[portSel], ok |-> TRUE]
    /\ recvVia' = <<"data", portSel>>
    /\ offer' = [offer EXCEPT ![portSel] = Zero]
    /\ portPc' = "idle"
    /\ UNCHANGED <<flowVars, grpVars, pumpVars, pipeVars, portData, portSel, swapReq, procStop,
                   dataClosed>>

\* case value, ok := <-port.Data: return value, ok, the channel being closed
Port11DataClosed ==
    /\ portPc = "select"
    /\ portSel \in dataClosed
    /\ recvResult' = [value |-> Zero, ok |-> FALSE]
    /\ recvVia' = <<"data", portSel>>
    /\ portPc' = "idle"
    /\ UNCHANGED <<flowVars, grpVars, pumpVars, pipeVars, portData, portSel, swapReq, procStop,
                   offer, dataClosed>>

\* ------------------------------------------------------- specifications
TaskStep(t) ==
    \/ RecvEntry(t) \/ RecvRetry(t) \/ RecvSelect(t)
    \/ SendEntry(t) \/ SendRetry(t) \/ SendSelect(t)
    \/ ReturnCtx(t)

Tasks == \E t \in Components : TaskStep(t)

CtlStep(c) ==
    \/ SwapSet(c)
    \/ SwapPing(c)
    \/ \E o \in OutPorts, i \in InPorts : CallConnect(c, o, i)
    \/ \E k \in conns : CallDisconnect(c, k)

MainStep ==
    \/ SwapSet("main")
    \/ SwapPing("main")
    \/ ScriptConnect
    \/ ScriptDisconnect
    \/ ScriptSleep

\* The port layer under any controllers: Hello wired to Printer at will.
Pair == {"hello", "printer"}
Init == InitWith(Pair, <<>>)

Next ==
    \/ NetRun
    \/ NetWait
    \/ Cancel
    \/ Tasks
    \/ \E c \in Controllers : CtlStep(c)

Spec == Init /\ [][Next]_vars

\* The demo: all four components under main's controller program.
InitMain == InitWith(Components, MainScript)

NextMain ==
    \/ NetRun
    \/ NetWait
    \/ Cancel
    \/ Tasks
    \/ MainStep

SpecMain == InitMain /\ [][NextMain]_vars

\* The demo up to the rewiring: hello -> upper -> printer is wired, cut, and
\* hello -> lower -> printer is wired.
RewireScript == SubSeq(MainScript, 1, 7)
InitRewire == InitWith(Components, RewireScript)
SpecRewire == InitRewire /\ [][NextMain]_vars

\* The demo's first block, run on a network of the three components it wires:
\* hello -> upper -> printer is wired, then cut.
Chain == {"hello", "upper", "printer"}
BlockScript == SubSeq(MainScript, 1, 5)
InitBlock == InitWith(Chain, BlockScript)

\* A network of mixed components: Hello and Printer rewired at will by main,
\* next to two components that return when and what they like.
\* Or a network of such components only, which may all return nil.
Mixed == {"hello", "printer"} \cup Workers
InitNet == \E comps \in {Mixed, Workers} : InitWith(comps, <<>>)

WorkStep(w) ==
    \/ WorkReturn(w, "nil")
    \/ WorkReturn(w, WorkErr(w))
    \/ WorkReturn(w, "canceled")

NextNet ==
    \/ NetRun
    \/ NetWait
    \/ Cancel
    \/ Tasks
    \/ CtlStep("main")
    \/ \E w \in Workers : WorkStep(w)

SpecNet == InitNet /\ [][NextNet]_vars

\* Two processors wired into each other at will by two controllers.  No
\* component of this network ever sends first, so every Run stays in Recv.
Ring == {"upper", "lower"}
InitRing == InitWith(Ring, <<>>)

NextRing ==
    \/ NetRun
    \/ NetWait
    \/ Cancel
    \/ \E t \in Ring : RecvEntry(t) \/ RecvRetry(t) \/ RecvSelect(t) \/ ReturnCtx(t)
    \/ \E c \in Controllers : CtlStep(c)

SpecRing == InitRing /\ [][NextRing]_vars

\* One StringConnection from Hello to Printer, cut by two goroutines.
InitPump == InitWith({}, <<>>)

NextPump ==
    \/ ConnectString
    \/ PumpNetRun
    \/ Cancel
    \/ PumpTake
    \/ PumpGive
    \/ PumpExit
    \/ SrcWake
    \/ SrcReturn
    \/ DstReturn
    \/ \E c \in Cutters : CutCall(c) \/ CutStep(c)

SpecPump == InitPump /\ [][NextPump]_vars

\* main's loop: helloToUpper is made and cut by main alone, then helloToLower
\* is made on the same hello.Out.
NextLoop ==
    \/ ConnectString
    \/ PumpNetRun
    \/ Cancel
    \/ PumpTake
    \/ PumpGive
    \/ PumpExit
    \/ SrcWake
    \/ SrcReturn
    \/ DstReturn
    \/ LowReturn
    \/ CutCall("c1")
    \/ CutStep("c1")
    \/ ConnectLower
    \/ LowerTake
    \/ LowerGive

SpecLoop == InitPump /\ [][NextLoop]_vars

\* A Cut under way takes its next step when it can; a select of the pump that
\* has its stop case ready time after time takes it in the end, since select
\* picks among its ready cases at random.  Nothing is asked of the components.
FairPump ==
    /\ SpecPump
    /\ \A c \in Cutters : WF_vars(CutStep(c))
    /\ WF_vars(PumpExit)

\* The Go scheduler runs every runnable goroutine: a component that can step
\* does, a Connect/Disconnect under way finishes, Run starts and returns.  The
\* caller's cancel() and the choice of the next Connect/Disconnect are free.
FairSpec ==
    /\ Init /\ [][Next]_vars
    /\ \A t \in Pair : WF_vars(TaskStep(t))
    /\ \A c \in Controllers : WF_vars(SwapSet(c) \/ SwapPing(c))
    /\ WF_vars(NetRun) /\ WF_vars(NetWait)

FairBlock ==
    /\ InitBlock /\ [][NextMain]_vars
    /\ \A t \in Chain : WF_vars(TaskStep(t))
    /\ WF_vars(MainStep)
    /\ WF_vars(NetRun) /\ WF_vars(NetWait)

\* The fixed pipeline, its tasks started: as it stands without a context, as
\* it stands with one, and without a context with one close left out.
InitPipe ==
    /\ FlowInit({}, <<>>) /\ NoConn /\ NoPort11
    /\ \E m \in {<<"none", "none">>, <<"live", "none">>,
                 <<"none", "generator">>, <<"none", "upcase">>} :
          pipeCtx = m[1] /\ leak = m[2]
    /\ genPc = "loop" /\ genI = 0
    /\ upPc = "recv" /\ upVal = Zero
    /\ prPc = "recv" /\ pipeOut = <<>>
    /\ chanCloses = [c \in PipeChans |-> 0]
    /\ pipeRet = [t \in PipeTasks |-> "none"]
    /\ waitPc = "waiting"

NextPipe ==
    \/ GenSend
    \/ GenExit
    \/ GenCtx
    \/ GenClose
    \/ UpRecvClosed
    \/ UpCtx
    \/ UpSend
    \/ UpClose
    \/ PrRecvClosed
    \/ PrCtx
    \/ PipeCancel
    \/ PipeWait

SpecPipe == InitPipe /\ [][NextPipe]_vars

\* The Go scheduler runs every runnable goroutine; the signal is free.
FairPipe ==
    /\ SpecPipe
    /\ WF_vars(GenStep) /\ WF_vars(UpStep) /\ WF_vars(PrStep) /\ WF_vars(PipeWait)

\* A Port11 whose Data is nil or a channel, no Recv under way.
InitPort ==
    /\ FlowInit({}, <<>>) /\ NoConn /\ NoPipe
    /\ portPc = "idle"
    /\ portData \in {NilChan, "a"}
    /\ portSel = NilChan
    /\ swapReq = NoRequest
    /\ procStop = FALSE
    /\ offer = [c \in DataChans |-> Zero]
    /\ dataClosed = {}
    /\ recvResult = NoResult
    /\ recvVia = <<"none", NilChan>>

NextPort ==
    \/ \E c \in DataChans, v \in PortValues : Feed(c, v)
    \/ \E c \in DataChans : CloseData(c)
    \/ StopFires
    \/ \E new \in DataChans \cup {NilChan} : Request(new)
    \/ Port11Call
    \/ Port11Swap
    \/ Port11Swapped
    \/ Port11Retry
    \/ Port11Stop
    \/ Port11Data
    \/ Port11DataClosed

SpecPort == InitPort /\ [][NextPort]_vars

\* =================================================================== claims
\* The port a component's pending Recv/Send works on.
CallPort(t) == IF pc[t] \in RecvLoop \cup {"recvCtx"} THEN InPort(t) ELSE OutPort(t)
Parked(t) == pc[t] \in {"recvPark", "sendPark"}
\* A swap on port p has stored the channel and has not yet tried to notify.
SwapUnderWay(p) ==
    \E c \in Controllers :
        \/ ctl[c].pc = "fromPing" /\ ctl[c].from = p
        \/ ctl[c].pc = "toPing" /\ ctl[c].to = p
AllIdle == \A c \in Controllers : ctl[c].pc = "idle"

\* C1: once every swap on a port has returned, a Recv/Send parked in its
\* blocking select on that port waits on the port's current channel, never on
\* another one.
C1_ParkedOnCurrent ==
    \A t \in Components :
        (Parked(t) /\ ~SwapUnderWay(CallPort(t))) => sel[t] = data[CallPort(t)]

\* C2: when the last operation on an Out and an In port was a Connect of the
\* two (both hold its channel and no call is under way), the context is not
\* cancelled, a Send is pending on the Out port and a Recv on the In port,
\* then the two calls are not both blocked for good: one of them can step, so
\* the Recv goes on to take the value over that channel.
C2_RecvNotStuck ==
    \A o \in OutPorts, i \in InPorts :
        ( /\ data[o] # NIL /\ data[o] = data[i]
          /\ AllIdle /\ ~cancelled
          /\ pc[Owner(o)] \in SendLoop /\ pc[Owner(i)] \in RecvLoop )
        => ENABLED (TaskStep(Owner(o)) \/ TaskStep(Owner(i)))

\* C3: in the rewiring scenario upper (B) never receives hello's second value
\* "Hello 1" (v2) over the first Conn's channel once that Conn's Disconnect has
\* returned.
C3_NothingOverOldWiring ==
    \A n \in 1..Len(log) :
        (log[n].snd = "hello" /\ log[n].rcv = "upper" /\ log[n].v = HelloMsg(1))
        => ~log[n].cut

\* C4: however many times Disconnect is called on a Conn, swap(nil) is applied
\* at most once to its Out port and at most once to its In port.
C4_UnbindOnce ==
    \A k \in 1..Len(nilSwaps) : nilSwaps[k].from <= 1 /\ nilSwaps[k].to <= 1

\* C10: no value passes from a Conn's Out port to its In port after the Conn's
\* Disconnect has returned and before a Connect is issued on one of the ports.
C10_NoThroughputAfterDisconnect ==
    \A n \in 1..Len(log) : ~log[n].quiet

\* Values handed over by sender s, and values taken by receiver r, so far.
SentBy(s) == {n \in 1..Len(log) : log[n].snd = s}
TakenBy(r) == {n \in 1..Len(log) : log[n].rcv = r}

\* C5: whatever Connect/Disconnect calls are interleaved, Printer's Recv has
\* returned exactly the values of the Sends of Hello that returned nil, each
\* once, unaltered and in order; the value of a Send that has not returned nil
\* has reached no Recv.
C5_ExactlyOnce ==
    /\ Len(printed) = count
    /\ \A n \in 1..Len(printed) : printed[n] = HelloMsg(n - 1)
C5_Witness ==
    /\ count = 2 /\ Len(printed) = 2
    /\ Len(log) = 2 /\ log[1].ch # log[2].ch

\* C6: a Recv/Send parked on a nil channel when the context is cancelled takes
\* no value and eventually returns the context's error, whatever swaps run.
C6_CancelUnblocksNil ==
    /\ [](\A t \in nilAtCancel : pc[t] \in {"recvCtx", "sendCtx", "returned"})
    /\ \A t \in Pair :
           (t \in nilAtCancel) ~> (pc[t] = "returned" /\ runErr = "canceled")
C6_Witness ==
    /\ \E t \in nilAtCancel : pc[t] = "returned" /\ wake[t] = "ctx"
    /\ \E c \in Controllers : ctl[c].pc # "idle"

\* C7: once the context given to Network.Run is cancelled, every component
\* returns and Run returns the cancellation error, whatever the wiring is.
C7_CancelStopsNetwork ==
    cancelled ~> ( /\ runPc = "done" /\ runErr = "canceled"
                   /\ \A t \in components : pc[t] = "returned" )
C7_Witness ==
    /\ runPc = "done" /\ runErr = "canceled"
    /\ data[OutPort("hello")] # NIL /\ data[InPort("printer")] # NIL
    /\ Len(printed) > 0

\* C8: a notification never ends a call: a call woken by one is at the top of
\* its loop or entering its select again; a component returns only with the
\* error of a cancelled context; every other return of Recv/Send is one
\* hand-over, and no sender hands the same value over twice.  A call that goes
\* round its loop reads the port's current channel anew, and a Send that goes
\* round its loop still offers the value it was called with.
C8_State ==
    /\ \A t \in Components :
          wake[t] = "ping" => pc[t] \in {"recvTop", "recvSel", "sendTop", "sendSel"}
    /\ \A t \in Components : pc[t] = "returned" => (cancelled /\ wake[t] = "ctx")
    /\ count = Cardinality(SentBy("hello"))
    /\ Len(printed) = Cardinality(TakenBy("printer"))
    /\ \A m, n \in 1..Len(log) :
          (log[m].snd = log[n].snd /\ log[m].v = log[n].v) => m = n
C8_Step ==
    \A t \in Components :
        /\ (pc[t] \in {"recvTop", "sendTop"} /\ pc'[t] # pc[t])
             => (pc'[t] \in {"recvSel", "sendSel"} /\ sel'[t] = data[CallPort(t)])
        /\ (pc[t] \in SendLoop /\ pc'[t] \in SendLoop) => SendArg(t)' = SendArg(t)
C8_SwapNeverEndsCall == []C8_State /\ [][C8_Step]_vars
C8_Witness ==
    \E t \in Components : wake[t] = "ping" /\ pc[t] = "recvSel" /\ sel[t] # NIL

\* C9: a parked call woken by a swap to nil stays in its wait loop, blocked on
\* the nil channel, for as long as no swap stores a channel in the port and the
\* context is not cancelled: it returns neither a value nor an error.
C9_DisconnectStalls ==
    \A p \in stalled :
        /\ pc[Owner(p)] \in LoopPcs(p)
        /\ data[p] = NIL
        /\ pc[Owner(p)] # TopPc(p) => sel[Owner(p)] = NIL
C9_Witness ==
    \E p \in stalled : pc[Owner(p)] = ParkPc(p) /\ AllIdle /\ Len(log) > 0

\* Steps a Connect/Disconnect call still has to take: two swaps of two halves.
StepsLeft(c) ==
    CASE ctl[c].pc = "fromSet" -> 4
      [] ctl[c].pc = "fromPing" -> 3
      [] ctl[c].pc = "toSet" -> 2
      [] ctl[c].pc = "toPing" -> 1
      [] OTHER -> 0

\* C11: a Connect/Disconnect call under way can always take its next step,
\* whatever the components are doing (parked, between calls, not started,
\* returned); every step it takes brings it one step closer to its return, four
\* steps in all; and a step takes at most one parked Recv/Send out of its select.
C11_State ==
    \A c \in Controllers : ctl[c].pc # "idle" => ENABLED (SwapSet(c) \/ SwapPing(c))
C11_Step ==
    /\ \A c \in Controllers :
          ctl'[c].pc # ctl[c].pc =>
              \/ ctl[c].pc = "idle" /\ ctl'[c].pc = "fromSet"
              \/ StepsLeft(c)' = StepsLeft(c) - 1
    /\ ctl' # ctl =>
          Cardinality({t \in Procs : Parked(t) /\ pc'[t] # pc[t]}) <= 1
C11_SwapNeverBlocks == []C11_State /\ [][C11_Step]_vars
C11_Witness ==
    \E c \in Controllers :
        /\ ctl[c].pc = "toPing" /\ ctl[c].kind = "connect"
        /\ pc["printer"] = "returned" /\ pc["hello"] = "sendCtx"
        /\ \E k \in conns : TRUE

\* C12: Network.Run has returned only if every registered component's Run
\* has returned, also when one of them returned an error long before the others.
C12_RunWaitsForAll ==
    runPc = "done" => \A t \in components : pc[t] = "returned" /\ ret[t] # "none"
C12_Witness ==
    /\ runPc = "done" /\ firstBad = "w1" /\ ret["w1"] = WorkErr("w1")
    /\ ret["w2"] = "nil" /\ ret["hello"] = "canceled" /\ Len(printed) > 0

\* C13: the value Network.Run returns is nil exactly when every component
\* returned nil, and otherwise the non-nil error that was reported first, be it
\* a cancellation error or not; it is not replaced by any error reported later.
C13_State ==
    /\ (runErr = "nil") <=> (firstBad = "none")
    /\ firstBad # "none" => (firstBad \in components /\ runErr = ret[firstBad])
    /\ runPc = "done" =>
          ((runErr = "nil") <=> (\A t \in components : ret[t] = "nil"))
C13_Step ==
    /\ runErr # "nil" => runErr' = runErr
    /\ runPc = "done" => (runErr' = runErr /\ runPc' = runPc)
C13_FirstErrorWins == []C13_State /\ [][C13_Step]_vars
C13_Witness ==
    /\ runPc = "done" /\ runErr = "canceled"
    /\ firstBad = "w1" /\ ret["w1"] = "canceled" /\ ret["w2"] = WorkErr("w2")

\* Component t's Run returns a non-nil error in this step.
Fails(t) == ret[t] = "none" /\ ret'[t] \notin {"none", "nil"}

\* C14: the step in which a component returns a non-nil error leaves the
\* context, every other component, every port and Network.Run itself as they
\* were; and Run has not returned while a component is still running.
C14_Step ==
    \A t \in Procs :
        Fails(t) =>
            /\ cancelled' = cancelled
            /\ \A u \in Procs \ {t} :
                   pc'[u] = pc[u] /\ sel'[u] = sel[u] /\ ret'[u] = ret[u]
            /\ UNCHANGED <<data, pingMade, pingBuf, runPc, ctl, conns>>
C14_State ==
    (\E t \in components : pc[t] # "returned") => runPc # "done"
C14_SiblingsKeepRunning == [][C14_Step]_vars /\ []C14_State
C14_Witness ==
    /\ ret["w1"] = WorkErr("w1") /\ ~cancelled /\ runPc = "wait"
    /\ pc["w2"] = "work" /\ pc["printer"] = "recvPark" /\ sel["printer"] # NIL
    /\ count = 1 /\ log[1].v = HelloMsg(0)

\* The Connect calls made so far, finished or under way: channel and ports.
Made ==
    conns \cup {[id |-> ctl[c].conn, from |-> ctl[c].from, to |-> ctl[c].to] :
                   c \in {d \in Controllers : ctl[d].kind = "connect"}}

\* C15: every Connect makes a channel no port and no other Connect holds and
\* stores that channel in its Out port and in its In port; a port holds nil or
\* the channel of a Connect made on it; and so no channel is ever the current
\* channel of two Out ports or of two In ports.
C15_State ==
    /\ \A ch \in 1..nextChan :
          /\ Cardinality({o \in OutPorts : data[o] = ch}) <= 1
          /\ Cardinality({i \in InPorts : data[i] = ch}) <= 1
          /\ Cardinality({k \in Made : k.id = ch}) = 1
    /\ \A o \in OutPorts :
          data[o] # NIL => \E k \in Made : k.id = data[o] /\ k.from = o
    /\ \A i \in InPorts :
          data[i] # NIL => \E k \in Made : k.id = data[i] /\ k.to = i
    /\ \A c \in Controllers :
          ctl[c].kind = "connect" => ctl[c].data = ctl[c].conn /\ ctl[c].data # NIL
C15_Step ==
    /\ nextChan' # nextChan =>
          /\ nextChan' = nextChan + 1
          /\ \A p \in Ports : data[p] # nextChan' /\ data'[p] # nextChan'
          /\ \E c \in Controllers :
                 ctl[c].pc = "idle" /\ ctl'[c].pc = "fromSet" /\ ctl'[c].data = nextChan'
    /\ \A c \in Controllers :
          (ctl[c].kind = "connect" /\ ctl'[c].pc # ctl[c].pc) =>
              /\ ctl[c].pc = "fromSet" => data'[ctl[c].from] = ctl[c].conn
              /\ ctl[c].pc = "toSet" => data'[ctl[c].to] = ctl[c].conn
C15_OneChannelOnePair == []C15_State /\ [][C15_Step]_vars
C15_Witness ==
    /\ AllIdle /\ nextChan = 2
    /\ data[OutPort("upper")] = 1 /\ data[OutPort("lower")] = 2
    /\ data[InPort("upper")] = 2 /\ data[InPort("lower")] = NIL

\* C16: at most one ping channel is ever made for a port, whoever touches the
\* port first; it is there whenever a Recv/Send is in its wait loop or a swap
\* is about to notify, and it is never replaced; and a swap about to notify a
\* port nobody is parked on can take that step.
C16_State ==
    /\ \A p \in Ports : pingMade[p] <= 1
    /\ \A t \in Components :
          pc[t] \in RecvLoop \cup SendLoop \cup {"recvCtx", "sendCtx"}
              => pingMade[CallPort(t)] = 1
    /\ \A c \in Controllers :
          /\ ctl[c].pc \in {"fromPing", "toSet", "toPing"} => pingMade[ctl[c].from] = 1
          /\ ctl[c].pc = "toPing" => pingMade[ctl[c].to] = 1
          /\ ctl[c].pc \in {"fromPing", "toPing"} => ENABLED SwapPing(c)
C16_Step ==
    \A p \in Ports : pingMade[p] = 1 => pingMade'[p] = 1
C16_OnePingChannel == []C16_State /\ [][C16_Step]_vars
C16_Witness ==
    /\ runPc = "init" /\ pc["printer"] = "off"
    /\ pingMade[OutPort("hello")] = 1 /\ pingMade[InPort("printer")] = 1
    /\ \E c \in Controllers : ctl[c].pc = "toPing" /\ ctl[c].to = InPort("printer")

\* C17: the step in which a component returns from Recv/Send with the
\* context's error hands no value over and leaves every port's channel as it
\* was; a call entered with the context cancelled returns that error as its
\* first step; and a component that has returned makes no further call.
C17_Step ==
    \A t \in Components :
        /\ (pc[t] # "returned" /\ pc'[t] = "returned") =>
               /\ cancelled /\ ret'[t] = "canceled"
               /\ UNCHANGED <<log, printed, count, data>>
        /\ (cancelled /\ pc[t] \in {"recvEntry", "sendEntry"} /\ pc'[t] # pc[t]) =>
               pc'[t] = "returned"
        /\ pc[t] = "returned" => pc'[t] = "returned"
C17_CancelIsFinal == [][C17_Step]_vars
C17_Witness ==
    /\ pc["hello"] = "returned" /\ ret["hello"] = "canceled"
    /\ count = 1 /\ Len(log) = 1 /\ nilAtCancel = {}
    /\ pc["printer"] = "recvCtx"
    /\ sel["printer"] # NIL /\ sel["printer"] = data[OutPort("hello")]

\* C19: a swap that has notified a port whose component is not in Recv/Send
\* (its Run has not started yet) leaves exactly one notification pending in
\* the port's ping channel, for the component's first wait loop to drain.
C19_PendingNotification ==
    \A p \in Ports :
        (pc[Owner(p)] = "off" /\ pingMade[p] = 1 /\ ~SwapUnderWay(p))
            => pingBuf[p] = 1

\* C18: however many Cut calls are made on a connection, one after another
\* or at once, close(conn.stop) is executed at most once; a call past cut.Do
\* finds stop closed; and a call has returned only if the pump goroutine has
\* exited.
C18_CutOnce ==
    /\ closes <= 1
    /\ (closes = 1) <=> (stop = "closed")
    /\ \A c \in Cutters :
          /\ cutPc[c] \in {"wait", "returned"} => stop = "closed"
          /\ cutPc[c] = "returned" => (pumpPc = "exited" /\ exited = "closed")
C18_Witness ==
    /\ \A c \in Cutters : cutPc[c] = "returned"
    /\ cutCalls = 3 /\ closes = 1

\* C20: every Cut call under way returns in the end, whatever select the pump
\* is in when stop is closed and whether or not Hello and Printer ever send
\* or receive again.
C20_CutReturns ==
    \A c \in Cutters : (cutPc[c] \in {"do", "close", "wait"}) ~> (cutPc[c] = "returned")
C20_Witness ==
    /\ \E c \in Cutters : cutPc[c] = "returned"
    /\ pumpPc = "exited" /\ pumpVal = HelloMsg(0)
    /\ dstPc = "returned" /\ dstGot = <<>>

\* C23: when no other call is under way, a Disconnect of a Conn stores nil
\* only in a port that still holds that Conn's own channel: a port that a
\* later Connect has bound to a newer channel keeps the newer channel.
C23_Step ==
    \A c \in Controllers :
        LET p == SwapPort(c) IN
        ( /\ ctl[c].kind = "disconnect" /\ ctl[c].pc \in {"fromSet", "toSet"}
          /\ ctl'[c].pc # ctl[c].pc
          /\ \A d \in Controllers \ {c} : ctl[d].pc = "idle"
          /\ \E k \in conns : k.id = data[p] /\ k.id > ctl[c].conn )
        => data'[p] = data[p]
C23_DisconnectKeepsNewer == [][C23_Step]_vars

\* C24: once every Connect/Disconnect call on the Out port of Hello and the In
\* port of Printer has returned, the two ports hold the same channel or are
\* both nil.
C24_PortsAgree ==
    AllIdle => data[OutPort("hello")] = data[InPort("printer")]

\* C25: while no Connect/Disconnect call is under way, the channel of a bound
\* In port is the channel of some Out port, and the channel of a bound Out
\* port is the channel of some In port.
C25_NoHalfOpen ==
    AllIdle =>
        /\ \A i \in InPorts : data[i] # NIL => \E o \in OutPorts : data[o] = data[i]
        /\ \A o \in OutPorts : data[o] # NIL => \E i \in InPorts : data[i] = data[o]

Forwarded == dstGot \o (IF pumpPc = "inner" THEN <<pumpVal>> ELSE <<>>)

\* C21 as stated: a value the pump drops was taken before stop was closed.
C21_DropOnlyAfterTake ==
    (pumpPc = "exited" /\ pumpVal # Zero) => ~pumpLate

\* C21, amended: the pump holds a value exactly while it is in its inner
\* select; what it has delivered to in, followed by the value it holds, are
\* the values Hello has sent, in order and each once; and the one value that
\* may be missing is the value the pump held when it left by its stop case,
\* stop being closed by a Cut.
C21_State ==
    /\ (pumpPc = "inner") => pumpVal # Zero
    /\ (pumpPc = "outer") => pumpVal = Zero
    /\ Len(Forwarded) + (IF pumpPc = "exited" /\ pumpVal # Zero THEN 1 ELSE 0) = srcCount
    /\ \A n \in 1..Len(Forwarded) : Forwarded[n] = HelloMsg(n - 1)
    /\ (pumpPc = "exited" /\ pumpVal # Zero) =>
           (stop = "closed" /\ closes = 1 /\ pumpVal = HelloMsg(srcCount - 1))
C21_Step ==
    /\ dstGot' # dstGot => (pumpPc = "inner" /\ dstGot' = Append(dstGot, pumpVal))
    /\ pumpPc = "exited" => UNCHANGED <<pumpPc, pumpVal, dstGot, srcCount>>
C21_PumpForwards == []C21_State /\ [][C21_Step]_vars
C21_Witness ==
    /\ pumpPc = "exited" /\ pumpVal = HelloMsg(1) /\ dstGot = <<HelloMsg(0)>>
    /\ srcPc = "sleep" /\ dstPc = "recv" /\ ~cancelled

\* C22: once helloToUpper.Cut() has returned, and so whenever the pump of
\* helloToLower exists, the pump of helloToUpper has exited: it takes nothing
\* more from hello.Out and hands nothing more to its component, and every
\* value Hello sends from then on is taken by the pump of helloToLower.
C22_State ==
    /\ cutPc["c1"] = "returned" => pumpPc = "exited"
    /\ lowPumpPc # "none" => pumpPc = "exited"
C22_Step ==
    lowPumpPc # "none" =>
        /\ dstGot' = dstGot
        /\ srcCount' # srcCount =>
              (lowPumpPc = "outer" /\ lowPumpVal' = HelloMsg(srcCount))
C22_OnePumpOnOut == []C22_State /\ [][C22_Step]_vars
C22_Witness ==
    /\ dstGot = <<HelloMsg(0)>> /\ lowGot = <<HelloMsg(1)>>
    /\ pumpPc = "exited" /\ lowPumpPc = "outer"

\* The fixed pipeline as it stands, without and with a context.
Plain == pipeCtx = "none" /\ leak = "none"
WithCtx == pipeCtx # "none"
PipeReturned == genPc = "returned" /\ upPc = "returned" /\ prPc = "returned"
\* The first n generated values as upcase passes them on.
UpperHellos(n) == [k \in 1..n |-> ToUpper(HelloMsg(k - 1))]

\* C27: in the fixed pipeline without a context every channel is closed at
\* most once, by its sender and after its last send (upcaseIn by the generator
\* after its 10th value, upcaseOut by upcase once upcaseIn is closed and it
\* holds nothing), no task stands at a send on a closed channel, the printer
\* has written the generated values upper-cased in generation order, and no
\* task returns anything but nil; and in the end all three tasks have returned
\* nil, the printer has written all 10 values, and Wait has returned.
C27_Safe ==
    Plain =>
        /\ \A c \in PipeChans : chanCloses[c] <= 1
        /\ chanCloses["upcaseIn"] = 1 => (genPc = "returned" /\ genI = HelloCount)
        /\ chanCloses["upcaseOut"] = 1 =>
               (upPc = "returned" /\ upVal = Zero /\ chanCloses["upcaseIn"] = 1)
        /\ (genPc = "loop" /\ genI < HelloCount) => chanCloses["upcaseIn"] = 0
        /\ upPc = "send" => chanCloses["upcaseOut"] = 0
        /\ Len(pipeOut) <= HelloCount /\ pipeOut = UpperHellos(Len(pipeOut))
        /\ prPc = "returned" => Len(pipeOut) = HelloCount
        /\ \A t \in PipeTasks : pipeRet[t] \in {"none", "nil"}
C27_Done ==
    /\ PipeReturned /\ waitPc = "returned"
    /\ \A t \in PipeTasks : pipeRet[t] = "nil"
    /\ \A c \in PipeChans : chanCloses[c] = 1
    /\ pipeOut = UpperHellos(HelloCount)
C27_ClosePropagates == []C27_Safe /\ (Plain ~> C27_Done)
C27_Witness == Plain /\ C27_Done

\* C28: in the fixed pipeline with a context, a task returns the context's
\* error only once the context is cancelled, and it does whenever it returns
\* without having finished (the generator before its 10th value, upcase and
\* the printer with their input still open); a task that returns nil has seen
\* its input closed (the generator: has sent its 10 values); a task that has
\* returned, either way, has closed its output exactly once; and once the
\* context is cancelled all three tasks return and Wait returns.
C28_Safe ==
    WithCtx =>
        /\ \A t \in PipeTasks : pipeRet[t] = "ctx" => pipeCtx = "done"
        /\ \A c \in PipeChans : chanCloses[c] <= 1
        /\ chanCloses["upcaseIn"] = (IF genPc = "returned" THEN 1 ELSE 0)
        /\ chanCloses["upcaseOut"] = (IF upPc = "returned" THEN 1 ELSE 0)
        /\ pipeRet["generator"] = "nil" => genI = HelloCount
        /\ pipeRet["upcase"] = "nil" => chanCloses["upcaseIn"] = 1
        /\ pipeRet["printer"] = "nil" => chanCloses["upcaseOut"] = 1
        /\ (genPc \in {"defer", "returned"} /\ genI < HelloCount) =>
               pipeRet["generator"] = "ctx"
        /\ (upPc \in {"defer", "returned"} /\ chanCloses["upcaseIn"] = 0) =>
               pipeRet["upcase"] = "ctx"
        /\ (prPc = "returned" /\ chanCloses["upcaseOut"] = 0) => pipeRet["printer"] = "ctx"
C28_CancelStops ==
    /\ []C28_Safe
    /\ (pipeCtx = "done") ~> (PipeReturned /\ waitPc = "returned")
C28_Witness ==
    /\ pipeCtx = "done" /\ PipeReturned /\ waitPc = "returned"
    /\ \A t \in PipeTasks : pipeRet[t] = "ctx"
    /\ upVal # Zero
    /\ \A c \in PipeChans : chanCloses[c] = 1

\* C29: in the pipeline without a context, with a component that never closes
\* its output, no component downstream of it ever terminates (the printer
\* stays in its receive, and so does upcase below a generator that does not
\* close) and Wait never returns.
C29_DownstreamNeverEnds ==
    (pipeCtx = "none" /\ leak # "none") =>
        /\ waitPc = "waiting"
        /\ prPc = "recv" /\ pipeRet["printer"] = "none"
        /\ leak = "generator" => (upPc \in {"recv", "send"} /\ pipeRet["upcase"] = "none")
C29_Witness ==
    /\ pipeCtx = "none" /\ leak = "generator"
    /\ genPc = "returned" /\ upPc = "recv" /\ prPc = "recv"
    /\ pipeOut = UpperHellos(HelloCount)
    /\ ~ENABLED NextPipe

\* C30: a Recv that has taken a request from Swap stores request.New in Data,
\* then calls request.Swapped, then enters its select anew, and does not
\* return on the way; from the moment the requester's send on Swap has
\* completed Data is request.New, and every select Recv waits in is built
\* with the current Data.  Recv returns either by its Stop case, with Stop
\* closed and the result ("", false), or by its Data case with the value and
\* ok flag the current Data channel gave: a sender's value and true, or
\* ("", false) from a closed channel.
C30_State ==
    /\ portPc = "select" => portSel = portData
    /\ swapReq.pc \in {"sent", "called"} => portData = swapReq.New
    /\ (portPc = "swapped") <=> (swapReq.pc = "sent")
    /\ recvVia[1] = "stop" => (procStop /\ recvResult = NoResult)
    /\ recvResult.ok => (recvVia[1] = "data" /\ recvResult.value \in PortValues)
C30_Step ==
    /\ portPc \in {"swapped", "retry"} => portPc' # "idle"
    /\ (swapReq.pc = "sending" /\ swapReq'.pc = "sent") =>
           (portPc = "select" /\ portPc' = "swapped" /\ portData' = swapReq.New)
    /\ (swapReq.pc = "sent" /\ swapReq'.pc # "sent") =>
           /\ portPc = "swapped" /\ portPc' = "retry"
           /\ swapReq'.pc = "called" /\ portData = swapReq.New
    /\ (portPc = "retry" /\ portPc' # "retry") =>
           (portPc' = "select" /\ portSel' = portData /\ portData' = portData)
    /\ (portPc = "select" /\ portPc' = "idle") =>
           \/ /\ procStop
              /\ recvResult' = NoResult /\ recvVia' = <<"stop", NilChan>>
           \/ /\ portData # NilChan
              /\ recvVia' = <<"data", portData>>
              /\ \/ /\ offer[portData] # Zero
                    /\ recvResult' = [value |-> offer[portData], ok |-> TRUE]
                    /\ offer'[portData] = Zero
                 \/ /\ portData \in dataClosed
                    /\ recvResult' = NoResult
C30_RecvAppliesSwap == []C30_State /\ [][C30_Step]_vars
C30_Witness ==
    /\ swapReq = [New |-> "b", pc |-> "called"]
    /\ portPc = "idle" /\ recvVia = <<"data", "b">> /\ recvResult.ok
    /\ offer["a"] # Zero /\ ~procStop

====
